---- MODULE Spec2Model ----
(***************************************************************************)
(* Model of the react-python-movies frontend: the application shell        *)
(* (ui/src/App.js), the actor picker (ui/src/ActorSelect.js) and the error *)
(* formatter (utils).  Every asynchronous handler is cut at its awaits:    *)
(* `await fetch(...)` and `await response.json()`.  A handler keeps the    *)
(* `movies` binding of the render that created it (its closure).           *)
(***************************************************************************)
EXTENDS Integers, Sequences, FiniteSets, TLC

VARIABLES
    movies,        \* useState([]) of App: sequence of movie objects
    addingMovie,   \* useState(false) of App
    formId,        \* the mutable `id` field of the objects made by the form
    ops,           \* the invocations of handleAddMovie / handleDeleteMovie
    loadPc,        \* position of fetchMovies
    loadResp,      \* the response fetchMovies is reading
    mounted,       \* App is mounted
    aborted,       \* controller.signal.aborted of App's effect
    server,        \* movie ids stored by the HTTP API, in storage order
    nextId,        \* next id the HTTP API assigns
    toasts,        \* notifications emitted through toast.success / toast.error
    createdOk,     \* history: form objects whose POST returned ok
    deletedOk,     \* history: ids whose DELETE returned ok
    added,         \* history: the movies of the completed Adds, in completion order
    loadCancelled, \* history: App unmounted while GET /movies was in flight
    pickers,       \* the mounted and unmounted instances of ActorSelect
    call           \* a call of getErrorMessage: its arguments and its result

vars == <<movies, addingMovie, formId, ops, loadPc, loadResp, mounted, aborted,
          server, nextId, toasts, createdOk, deletedOk, added, loadCancelled,
          pickers, call>>

shellVars == <<movies, addingMovie, formId, ops, loadPc, loadResp, mounted,
               aborted, server, nextId, createdOk, deletedOk, added,
               loadCancelled>>

-----------------------------------------------------------------------------
(* Bounds *)

MaxOps == 2        \* invocations of handleAddMovie / handleDeleteMovie

MaxInitial == 2    \* movies stored by the API before the page is opened

MaxMounts == 2     \* mounts of the actor picker

-----------------------------------------------------------------------------
(* JavaScript values *)

Undefined == [t |-> "undefined", v |-> ""]

Str(s) == [t |-> "string", v |-> s]

Truthy(x) == x.t = "string" /\ x.v # ""

\* the `detail` fields an error body of the API can carry
ErrorDetails == {Undefined, Str(""), Str("title required")}

\* an error body: JSON with an optional detail, or a body that is not JSON;
\* a handler learns which one when its `await response.json()` settles
ErrorBodies ==
    [json : {TRUE}, detail : ErrorDetails] \cup {[json |-> FALSE, detail |-> Undefined]}

NoBody == [json |-> FALSE, detail |-> Undefined]

-----------------------------------------------------------------------------
(* utils *)

COULD_NOT_CONNECT_TO_SERVER == "Could not connect to server"

\* errorDetail || contextMessage
getErrorMessageDetailOnly(contextMessage, errorDetail) ==
    IF Truthy(errorDetail) THEN errorDetail.v ELSE contextMessage

getErrorMessage(contextMessage, errorDetail) ==
    IF Truthy(errorDetail)
    THEN contextMessage \o ": " \o errorDetail.v
    ELSE contextMessage

\* the context messages and the details getErrorMessage is called with
ContextMessages ==
    {"Failed to load movies", "Failed to add movie", "Failed to delete movie",
     "Failed to load actors", "Failed to X", ""}

Details ==
    {Undefined, Str(""), Str("title required"), Str("bad id"), Str(" "), Str("0"),
     Str("undefined"), Str(COULD_NOT_CONNECT_TO_SERVER)}

NoCall == [contextMessage |-> "", errorDetail |-> Undefined, result |-> "", done |-> FALSE]

\* the arguments of the first call
FirstArguments ==
    \E c \in ContextMessages, d \in Details :
        call = [contextMessage |-> c, errorDetail |-> d, result |-> "", done |-> FALSE]

\* getErrorMessage(contextMessage, errorDetail) is evaluated
CallFormatter ==
    /\ ~call.done
    /\ call' = [call EXCEPT !.result = getErrorMessage(call.contextMessage, call.errorDetail),
                            !.done = TRUE]
    /\ UNCHANGED <<shellVars, toasts, pickers>>

\* the next call, with other arguments
NextArguments ==
    /\ call.done
    /\ \E c \in ContextMessages, d \in Details :
         call' = [contextMessage |-> c, errorDetail |-> d, result |-> "", done |-> FALSE]
    /\ UNCHANGED <<shellVars, toasts, pickers>>

NextFormatter == CallFormatter \/ NextArguments

-----------------------------------------------------------------------------
(* fetch with and without an AbortSignal *)

\* fetch called without the signal option: the abort is not seen
FetchIgnoringSignal(signalAborted, net) == net

\* what `await fetch(url, {signal})` settles to, given what the network delivers
FetchWithSignal(signalAborted, net) ==
    IF signalAborted THEN "AbortError" ELSE net

\* what `await response.json()` settles to for a response fetched with a signal
JsonWithSignal(signalAborted, body) ==
    IF signalAborted THEN "AbortError"
    ELSE IF body.json THEN "parsed" ELSE "SyntaxError"

\* `await response.json()` for a response fetched without a signal
JsonNoSignal(body) == IF body.json THEN "parsed" ELSE "SyntaxError"

\* error.name === 'AbortError'
IsAbortError(err) == err = "AbortError"

-----------------------------------------------------------------------------
(* Movie objects *)

\* the record MovieForm assembles on the n-th invocation of onMovieSubmit
FormMovie(n) == [src |-> "form", n |-> n]

\* the object response.json() of GET /movies builds for the stored movie id
JsonMovie(id) == [src |-> "json", n |-> id]

\* movie.id
MovieId(m) == IF m.src = "json" THEN m.n ELSE formId[m.n]

RECURSIVE ParseMovies(_)
ParseMovies(ids) ==
    IF ids = <<>> THEN <<>> ELSE <<JsonMovie(Head(ids))>> \o ParseMovies(Tail(ids))

Range(s) == {s[k] : k \in 1..Len(s)}

Ids(ms) == {MovieId(ms[k]) : k \in 1..Len(ms)}

-----------------------------------------------------------------------------
(* toast *)

ToastSuccess(text) == Append(toasts, [type |-> "success", text |-> text])

\* a failure that is not shown to the user
ToastErrorDropped(text) == toasts

ToastError(text) == Append(toasts, [type |-> "error", text |-> text])

-----------------------------------------------------------------------------
(* App: initial state *)

InitShell ==
    /\ movies = <<>>
    /\ addingMovie = FALSE
    /\ formId = [n \in 1..MaxOps |-> 0]
    /\ ops = <<>>
    /\ loadPc = "fetch"
    /\ loadResp = [list |-> <<>>, body |-> NoBody]
    /\ mounted = TRUE
    /\ aborted = FALSE
    /\ \E k \in 0..MaxInitial :
          /\ server = [j \in 1..k |-> j]
          /\ nextId = k + 1
    /\ createdOk = {}
    /\ deletedOk = {}
    /\ added = <<>>
    /\ loadCancelled = FALSE

-----------------------------------------------------------------------------
(* App: fetchMovies *)

\* the context of the actor picker
LoadContextOfActors == "Failed to load actors"

LoadContext == "Failed to load movies"

\* a catch block without the AbortError test
LoadCatchReportingAbort(err) ==
    /\ loadPc' = "reported"
    /\ toasts' = ToastError(getErrorMessage(LoadContext, Str(COULD_NOT_CONNECT_TO_SERVER)))

\* the catch block of fetchMovies
LoadCatch(err) ==
    IF IsAbortError(err)
    THEN /\ loadPc' = "cancelled"
         /\ toasts' = toasts
    ELSE /\ loadPc' = "reported"
         /\ toasts' = ToastError(getErrorMessage(LoadContext, Str(COULD_NOT_CONNECT_TO_SERVER)))

\* `await fetch('/movies', {signal})` settles
LoadFetchSettles ==
    /\ loadPc = "fetch"
    /\ \E net \in {"ok", "nonok", "neterr"} :
         LET r == FetchWithSignal(aborted, net) IN
         CASE r = "ok" ->
                /\ loadPc' = "json_ok"
                /\ loadResp' = [list |-> server, body |-> NoBody]
                /\ toasts' = toasts
           [] r = "nonok" ->
                /\ loadPc' = "json_err"
                /\ loadResp' = loadResp
                /\ toasts' = toasts
           [] OTHER ->
                /\ LoadCatch(IF r = "neterr" THEN "TypeError" ELSE r)
                /\ loadResp' = loadResp
    /\ UNCHANGED <<movies, addingMovie, formId, ops, mounted, aborted, server,
                   nextId, createdOk, deletedOk, added, loadCancelled, pickers,
                   call>>

\* `await response.json()` settles
LoadJsonSettles ==
    /\ loadPc \in {"json_ok", "json_err"}
    /\ IF loadPc = "json_ok"
       THEN LET r == JsonWithSignal(aborted, [json |-> TRUE, detail |-> Undefined]) IN
            /\ loadResp' = loadResp
            /\ IF r = "parsed"
               THEN /\ movies' = ParseMovies(loadResp.list)
                    /\ loadPc' = "applied"
                    /\ toasts' = toasts
               ELSE /\ LoadCatch(r)
                    /\ movies' = movies
       ELSE \E b \in ErrorBodies :
            LET r == JsonWithSignal(aborted, b) IN
            /\ movies' = movies
            /\ loadResp' = [loadResp EXCEPT !.body = b]
            /\ IF r = "parsed"
               THEN /\ loadPc' = "reported"
                    /\ toasts' = ToastError(getErrorMessage(LoadContext, b.detail))
               ELSE LoadCatch(r)
    /\ UNCHANGED <<addingMovie, formId, ops, mounted, aborted, server,
                   nextId, createdOk, deletedOk, added, loadCancelled, pickers,
                   call>>

\* the cleanup of App's effect: controller.abort()
ShellUnmount ==
    /\ mounted
    /\ mounted' = FALSE
    /\ aborted' = TRUE
    /\ loadCancelled' = (loadPc \in {"fetch", "json_ok", "json_err"})
    /\ UNCHANGED <<movies, addingMovie, formId, ops, loadPc, loadResp, server,
                   nextId, toasts, createdOk, deletedOk, added, pickers,
                   call>>

-----------------------------------------------------------------------------
(* App: render and user events *)

\* onClick of the "Add a movie" button
PressAdd ==
    /\ mounted
    /\ ~addingMovie
    /\ addingMovie' = TRUE
    /\ UNCHANGED <<movies, formId, ops, loadPc, loadResp, mounted, aborted,
                   server, nextId, toasts, createdOk, deletedOk, added, loadCancelled,
                   pickers,
                   call>>

InFlightPcs == {"fetch", "json_ok", "json_err"}

\* the invocations that have not run to their end
InFlight == {j \in 1..Len(ops) : ops[j].pc \in InFlightPcs}

\* an invocation of a handler: `movies` is the binding of the current render
Op(kind, movie, url) ==
    [kind |-> kind, movie |-> movie, closure |-> movies, pc |-> "fetch",
     url |-> url, rid |-> 0, body |-> NoBody]

\* MovieForm calls onMovieSubmit: handleAddMovie runs up to `await fetch`
SubmitMovie ==
    /\ mounted
    /\ addingMovie
    /\ Len(ops) < MaxOps
    /\ ops' = Append(ops, Op("add", FormMovie(Len(ops) + 1), 0))
    /\ UNCHANGED <<movies, addingMovie, formId, loadPc, loadResp, mounted,
                   aborted, server, nextId, toasts, createdOk, deletedOk,
                   added, loadCancelled, pickers,
                   call>>

\* MoviesList calls onDeleteMovie: handleDeleteMovie runs up to `await fetch`
ClickDelete ==
    /\ mounted
    /\ Len(ops) < MaxOps
    /\ \E k \in 1..Len(movies) :
         ops' = Append(ops, Op("delete", movies[k], MovieId(movies[k])))
    /\ UNCHANGED <<movies, addingMovie, formId, loadPc, loadResp, mounted,
                   aborted, server, nextId, toasts, createdOk, deletedOk,
                   added, loadCancelled, pickers,
                   call>>

-----------------------------------------------------------------------------
(* App: handleAddMovie *)

AddContext == "Failed to add movie"

\* [...movies, movie]
AddedList(ms, movie) == Append(ms, movie)

\* `await fetch('/movies', {method: 'POST'})` settles
AddFetchSettles(i) ==
    /\ ops[i].kind = "add"
    /\ ops[i].pc = "fetch"
    /\ \/ /\ ops' = [ops EXCEPT ![i].pc = "json_ok", ![i].rid = nextId]
          /\ server' = Append(server, nextId)
          /\ nextId' = nextId + 1
          /\ createdOk' = createdOk \cup {ops[i].movie.n}
          /\ toasts' = toasts
       \/ /\ ops' = [ops EXCEPT ![i].pc = "json_err"]
          /\ UNCHANGED <<server, nextId, createdOk, toasts>>
       \/ /\ ops' = [ops EXCEPT ![i].pc = "failed"]
          /\ toasts' = ToastError(getErrorMessage(AddContext, Str(COULD_NOT_CONNECT_TO_SERVER)))
          /\ UNCHANGED <<server, nextId, createdOk>>
    /\ UNCHANGED <<movies, addingMovie, formId, loadPc, loadResp, mounted,
                   aborted, deletedOk, added, loadCancelled, pickers,
                   call>>

\* a handler that also leaves the form when the Add was refused
AddJsonSettlesClosingForm(i) ==
    /\ ops[i].kind = "add"
    /\ ops[i].pc \in {"json_ok", "json_err"}
    /\ IF ops[i].pc = "json_ok"
       THEN /\ formId' = [formId EXCEPT ![ops[i].movie.n] = ops[i].rid]
            /\ movies' = AddedList(ops[i].closure, ops[i].movie)
            /\ toasts' = ToastSuccess("Movie added successfully")
            /\ ops' = [ops EXCEPT ![i].pc = "succeeded"]
            /\ added' = Append(added, ops[i].movie)
       ELSE /\ \E b \in ErrorBodies :
                 /\ ops' = [ops EXCEPT ![i].pc = "failed", ![i].body = b]
                 /\ toasts' = IF JsonNoSignal(b) = "parsed"
                              THEN ToastError(getErrorMessage(AddContext, b.detail))
                              ELSE ToastError(getErrorMessage(AddContext, Str(COULD_NOT_CONNECT_TO_SERVER)))
            /\ UNCHANGED <<movies, formId, added>>
    /\ addingMovie' = FALSE
    /\ UNCHANGED <<loadPc, loadResp, mounted, aborted, server, nextId,
                   createdOk, deletedOk, loadCancelled, pickers,
                   call>>

\* `await response.json()` settles
AddJsonSettles(i) ==
    /\ ops[i].kind = "add"
    /\ ops[i].pc \in {"json_ok", "json_err"}
    /\ IF ops[i].pc = "json_ok"
       THEN /\ formId' = [formId EXCEPT ![ops[i].movie.n] = ops[i].rid]
            /\ movies' = AddedList(ops[i].closure, ops[i].movie)
            /\ addingMovie' = FALSE
            /\ toasts' = ToastSuccess("Movie added successfully")
            /\ ops' = [ops EXCEPT ![i].pc = "succeeded"]
            /\ added' = Append(added, ops[i].movie)
       ELSE /\ \E b \in ErrorBodies :
                 /\ ops' = [ops EXCEPT ![i].pc = "failed", ![i].body = b]
                 /\ toasts' = IF JsonNoSignal(b) = "parsed"
                              THEN ToastError(getErrorMessage(AddContext, b.detail))
                              ELSE ToastError(getErrorMessage(AddContext, Str(COULD_NOT_CONNECT_TO_SERVER)))
            /\ UNCHANGED <<movies, addingMovie, formId, added>>
    /\ UNCHANGED <<loadPc, loadResp, mounted, aborted, server, nextId,
                   createdOk, deletedOk, loadCancelled, pickers,
                   call>>

-----------------------------------------------------------------------------
(* App: handleDeleteMovie *)

\* the context of another handler
DeleteContextOfAdd == "Failed to add movie"

DeleteContext == "Failed to delete movie"

\* movies.filter(m => m !== movie)
FilteredList(ms, movie) == SelectSeq(ms, LAMBDA m : m # movie)

\* the API removes a stored id
ServerRemove(id) == SelectSeq(server, LAMBDA x : x # id)

\* `await fetch('/movies/<id>', {method: 'DELETE'})` settles
DeleteFetchSettles(i) ==
    /\ ops[i].kind = "delete"
    /\ ops[i].pc = "fetch"
    /\ \/ /\ ops[i].url \in Range(server)
          /\ server' = ServerRemove(ops[i].url)
          /\ deletedOk' = deletedOk \cup {ops[i].url}
          /\ movies' = FilteredList(ops[i].closure, ops[i].movie)
          /\ toasts' = ToastSuccess("Movie deleted successfully")
          /\ ops' = [ops EXCEPT ![i].pc = "succeeded"]
       \/ /\ ops' = [ops EXCEPT ![i].pc = "json_err"]
          /\ UNCHANGED <<server, deletedOk, movies, toasts>>
       \/ /\ ops' = [ops EXCEPT ![i].pc = "failed"]
          /\ toasts' = ToastError(getErrorMessage(DeleteContext, Str(COULD_NOT_CONNECT_TO_SERVER)))
          /\ UNCHANGED <<server, deletedOk, movies>>
    /\ UNCHANGED <<addingMovie, formId, loadPc, loadResp, mounted, aborted,
                   nextId, createdOk, added, loadCancelled, pickers,
                   call>>

\* `await response.json()` of the error body settles
DeleteJsonSettles(i) ==
    /\ ops[i].kind = "delete"
    /\ ops[i].pc = "json_err"
    /\ \E b \in ErrorBodies :
         /\ ops' = [ops EXCEPT ![i].pc = "failed", ![i].body = b]
         /\ toasts' = IF JsonNoSignal(b) = "parsed"
                      THEN ToastError(getErrorMessage(DeleteContext, b.detail))
                      ELSE ToastError(getErrorMessage(DeleteContext, Str(COULD_NOT_CONNECT_TO_SERVER)))
    /\ UNCHANGED <<movies, addingMovie, formId, loadPc, loadResp, mounted,
                   aborted, server, nextId, createdOk, deletedOk, added, loadCancelled,
                   pickers,
                   call>>

-----------------------------------------------------------------------------
(* ActorSelect *)

\* the catalogs GET /actors can return (actor ids)
ActorCatalogs == {<<1>>, <<1, 2>>}

InitPicker == pickers = <<>>

\* a mount of ActorSelect: useState([]) and the effect up to `await fetch`
PickerMount ==
    /\ Len(pickers) < MaxMounts
    /\ pickers' = Append(pickers,
                         [pc |-> "fetch", mounted |-> TRUE, aborted |-> FALSE,
                          availableActors |-> <<>>, list |-> <<>>, body |-> NoBody,
                          cancelledAt |-> "none"])
    /\ UNCHANGED <<shellVars, toasts, call>>

\* the cleanup of the effect: controller.abort()
PickerUnmount(p) ==
    /\ pickers[p].mounted
    /\ pickers' = [pickers EXCEPT
                     ![p].mounted = FALSE,
                     ![p].aborted = TRUE,
                     ![p].cancelledAt =
                         IF pickers[p].pc \in {"fetch", "json_ok", "json_err"}
                         THEN pickers[p].pc ELSE "none"]
    /\ UNCHANGED <<shellVars, toasts, call>>

\* the catch block of fetchActors
PickerCatch(p, err) ==
    IF IsAbortError(err)
    THEN /\ pickers' = [pickers EXCEPT ![p].pc = "cancelled"]
         /\ toasts' = toasts
    ELSE /\ pickers' = [pickers EXCEPT ![p].pc = "reported"]
         /\ toasts' = ToastError("Network error: Could not connect to server")

\* errorData.detail || 'Failed to load actors'
PickerErrorText(detail) == IF Truthy(detail) THEN detail.v ELSE "Failed to load actors"

\* `await fetch('/actors', {signal})` settles
PickerFetchSettles(p) ==
    /\ pickers[p].pc = "fetch"
    /\ \E net \in {"ok", "nonok", "neterr"} :
         LET r == FetchWithSignal(pickers[p].aborted, net) IN
         CASE r = "ok" ->
                /\ \E c \in ActorCatalogs :
                     pickers' = [pickers EXCEPT ![p].pc = "json_ok", ![p].list = c]
                /\ toasts' = toasts
           [] r = "nonok" ->
                /\ pickers' = [pickers EXCEPT ![p].pc = "json_err"]
                /\ toasts' = toasts
           [] OTHER ->
                PickerCatch(p, IF r = "neterr" THEN "TypeError" ELSE r)
    /\ UNCHANGED <<shellVars, call>>

\* `await response.json()` settles
PickerJsonSettles(p) ==
    /\ pickers[p].pc \in {"json_ok", "json_err"}
    /\ IF pickers[p].pc = "json_ok"
       THEN LET r == JsonWithSignal(pickers[p].aborted, [json |-> TRUE, detail |-> Undefined]) IN
            IF r = "parsed"
            THEN /\ pickers' = [pickers EXCEPT ![p].pc = "applied",
                                               ![p].availableActors = pickers[p].list]
                 /\ toasts' = toasts
            ELSE PickerCatch(p, r)
       ELSE \E b \in ErrorBodies :
            LET r == JsonWithSignal(pickers[p].aborted, b) IN
            IF r = "parsed"
            THEN /\ pickers' = [pickers EXCEPT ![p].pc = "reported", ![p].body = b]
                 /\ toasts' = ToastError(PickerErrorText(b.detail))
            ELSE PickerCatch(p, r)
    /\ UNCHANGED <<shellVars, call>>

NextPicker ==
    \/ PickerMount
    \/ \E p \in 1..Len(pickers) : PickerUnmount(p)
    \/ \E p \in 1..Len(pickers) : PickerFetchSettles(p)
    \/ \E p \in 1..Len(pickers) : PickerJsonSettles(p)

-----------------------------------------------------------------------------
(* Specification of the application shell *)

Init == InitShell /\ InitPicker /\ toasts = <<>> /\ call = NoCall

Next ==
    \/ LoadFetchSettles
    \/ LoadJsonSettles
    \/ ShellUnmount
    \/ PressAdd
    \/ SubmitMovie
    \/ ClickDelete
    \/ \E i \in 1..Len(ops) : AddFetchSettles(i)
    \/ \E i \in 1..Len(ops) : AddJsonSettles(i)
    \/ \E i \in 1..Len(ops) : DeleteFetchSettles(i)
    \/ \E i \in 1..Len(ops) : DeleteJsonSettles(i)

Spec == Init /\ [][Next]_vars

\* Specification of the actor picker
SpecPicker == Init /\ [][NextPicker]_vars

\* Specification of the error formatter
InitFormatter == InitShell /\ InitPicker /\ toasts = <<>> /\ FirstArguments

SpecFormatter == InitFormatter /\ [][NextFormatter]_vars

-----------------------------------------------------------------------------
(* Properties of the application shell *)

Succeeded(i) == ops[i].pc = "succeeded"

\* The Add i and the Delete j are the only invocations made, the Delete is of
\* a loaded movie that was listed when the Add was issued (the Add was issued
\* after the Load and before the Delete completed) and the added movie was not
\* listed when the Delete was issued (the Delete was issued before the Add
\* completed): the two were pending at the same time.
OverlappingAddDelete(i, j) ==
    /\ Len(ops) = 2
    /\ ops[i].kind = "add" /\ ops[j].kind = "delete"
    /\ ops[j].movie.src = "json"
    /\ ops[j].movie \in Range(ops[i].closure)
    /\ ops[i].movie \notin Range(ops[j].closure)

\* C1: an Add of a new movie and a Delete of another listed movie that
\* overlap and both succeed leave, whichever completes last, a list with the
\* added movie, without the deleted movie, and with every other movie that was
\* listed while both were pending.
C1_OverlappingAddDeleteReconcile ==
    [][\A i, j \in 1..Len(ops) :
         ( /\ OverlappingAddDelete(i, j)
           /\ ops'[i].pc = "succeeded" /\ ops'[j].pc = "succeeded"
           /\ ~(Succeeded(i) /\ Succeeded(j)) )
         => /\ ops[i].movie \in Range(movies')
            /\ ops[j].movie \notin Range(movies')
            /\ Range(ops[i].closure) \ {ops[j].movie} \subseteq Range(movies')
      ]_vars

\* C2: a form movie enters the list only after its POST returned ok, and an id
\* leaves the list only after a DELETE of that id returned ok.
C2_ChangesFollowConfirmation ==
    [][ /\ \A n \in 1..MaxOps :
             (FormMovie(n) \in Range(movies') /\ FormMovie(n) \notin Range(movies))
             => n \in createdOk'
        /\ \A id \in Ids(movies) :
             id \notin Ids(movies)' => id \in deletedOk'
      ]_vars

\* C3: once the Load has been applied and no request is pending, the ids of
\* the local list are the ids stored by the API.
C3_ListReflectsServer ==
    (loadPc = "applied" /\ InFlight = {}) => Ids(movies) = Range(server)

\* the movies of the Deletes that returned ok
DeletedMovies == {ops[j].movie : j \in {k \in 1..Len(ops) : ops[k].kind = "delete" /\ Succeeded(k)}}

Loaded == IF loadPc = "applied" THEN ParseMovies(loadResp.list) ELSE <<>>

\* C4: the list is the loaded sequence, then the added movies in completion
\* order, without the deleted movies.
C4_FetchThenAppendOrder ==
    movies = SelectSeq(Loaded \o added, LAMBDA m : m \notin DeletedMovies)

-----------------------------------------------------------------------------
(* Cancellation *)

\* C5: once a picker was unmounted with its GET /actors pending (awaiting the
\* response or awaiting the body), no later step changes its availableActors
\* and no step of its fetchActors emits a notification.
C5_PickerCancellation ==
    [][\A p \in 1..Len(pickers) :
         pickers[p].cancelledAt # "none"
         => /\ pickers'[p].availableActors = pickers[p].availableActors
            /\ pickers'[p].pc # pickers[p].pc => toasts' = toasts
      ]_vars

\* a picker unmounted while the body of an ok response was pending has run its
\* handler to the end, and one unmounted while awaiting the response has too
C5_Witness ==
    \E p, q \in 1..Len(pickers) :
        /\ pickers[p].cancelledAt = "json_ok" /\ pickers[p].pc = "cancelled"
        /\ pickers[p].list # <<>> /\ pickers[p].availableActors = <<>>
        /\ pickers[q].cancelledAt = "fetch" /\ pickers[q].pc = "cancelled"

\* C6: once App was unmounted with its GET /movies pending, no step of
\* fetchMovies replaces the list or emits a notification.
C6_LoadCancellation ==
    [][(loadCancelled /\ loadPc' # loadPc) => (movies' = movies /\ toasts' = toasts)]_vars

\* the Load was cancelled while a non-empty list was about to be applied
C6_Witness ==
    /\ loadCancelled
    /\ loadPc = "cancelled"
    /\ loadResp.list # <<>>
    /\ movies = <<>>

-----------------------------------------------------------------------------
(* Add and Delete: outcome of one invocation *)

\* the invocation i runs to its end in this step, with a failure
Fails(i) == ops[i].pc \in InFlightPcs /\ ops'[i].pc = "failed"

\* the invocation i runs to its end in this step, with a success
Succeeds(i) == ops[i].pc \in InFlightPcs /\ ops'[i].pc = "succeeded"

\* the text a failure of invocation i is to be reported with in this step:
\* ops'[i].body is the error body the handler has read, if it read one
ExpectedFailureText(i, context) ==
    IF ops[i].pc = "fetch" \/ ~ops'[i].body.json
    THEN context \o ": Could not connect to server"
    ELSE IF ops'[i].body.detail = Str("title required")
         THEN context \o ": title required"
         ELSE context

OneMoreToast(type, text) ==
    /\ Len(toasts') = Len(toasts) + 1
    /\ SubSeq(toasts', 1, Len(toasts)) = toasts
    /\ toasts'[Len(toasts')] = [type |-> type, text |-> text]

NoOtherAddSucceeded(i) ==
    \A j \in 1..Len(ops) : (j # i /\ ops[j].kind = "add") => ~Succeeded(j)

C8_AddSuccess ==
    [][\A i \in 1..Len(ops) :
         (ops[i].kind = "add" /\ Succeeds(i))
         => /\ formId'[ops[i].movie.n] = ops[i].rid
            /\ ops[i].rid \in Range(server)
            /\ movies' # <<>> /\ movies'[Len(movies')] = ops[i].movie
            /\ SelectSeq(movies', LAMBDA x : x \in Range(movies)) = movies
            /\ ~addingMovie'
            /\ OneMoreToast("success", "Movie added successfully")
            /\ \A id \in Ids(movies)' : id # 0
      ]_vars

\* the movies of the list old other than m are in the list new, in the same order
KeptInOrder(old, new, m) ==
    SelectSeq(new, LAMBDA x : x \in Range(old)) = SelectSeq(old, LAMBDA x : x # m)

\* C9: the step in which a Delete of a listed movie succeeds leaves a list
\* without that movie and with every other movie that was listed when the
\* Delete completed, in the same relative order.
C9_DeleteSuccess ==
    [][\A i \in 1..Len(ops) :
         (ops[i].kind = "delete" /\ Succeeds(i))
         => /\ ops[i].movie \notin Range(movies')
            /\ KeptInOrder(movies, movies', ops[i].movie)
      ]_vars

\* C10: the step in which a Delete fails (non-ok response or network error)
\* leaves the list as it was and emits exactly one notification, an error
\* with the context "Failed to delete movie".
C10_DeleteFailure ==
    [][\A i \in 1..Len(ops) :
         (ops[i].kind = "delete" /\ Fails(i))
         => /\ movies' = movies
            /\ OneMoreToast("error", ExpectedFailureText(i, "Failed to delete movie"))
      ]_vars

\* a Delete of a listed movie failed and the movie is still listed
C10_Witness ==
    \E i \in 1..Len(ops) :
        /\ ops[i].kind = "delete" /\ ops[i].pc = "failed"
        /\ ops[i].movie \in Range(movies)
        /\ toasts # <<>>
        /\ toasts[Len(toasts)].type = "error"
        /\ toasts[Len(toasts)].text \in {"Failed to delete movie",
                                         "Failed to delete movie: title required",
                                         "Failed to delete movie: Could not connect to server"}

-----------------------------------------------------------------------------
(* Load *)

\* the text a failure of the Load is to be reported with in this step:
\* loadResp'.body is the error body fetchMovies has read, if it read one
ExpectedLoadFailureText ==
    IF loadPc = "fetch" \/ ~loadResp'.body.json
    THEN "Failed to load movies: Could not connect to server"
    ELSE IF loadResp'.body.detail = Str("title required")
         THEN "Failed to load movies: title required"
         ELSE "Failed to load movies"

\* C11: the step in which the Load succeeds makes the list the returned
\* sequence, whatever it was; the step in which the Load fails (non-ok
\* response or network error, not a cancellation) leaves the list as it was
\* and emits exactly one notification, an error with the context
\* "Failed to load movies".
C11_Load ==
    [][ /\ (loadPc = "json_ok" /\ loadPc' = "applied")
           => /\ Len(movies') = Len(loadResp.list)
              /\ \A k \in 1..Len(movies') :
                   movies'[k] = [src |-> "json", n |-> loadResp.list[k]]
              /\ toasts' = toasts
        /\ (loadPc \in InFlightPcs /\ loadPc' = "reported")
           => /\ movies' = movies
              /\ OneMoreToast("error", ExpectedLoadFailureText)
      ]_vars

\* the Load was refused with a detail after an Add had completed: the added
\* movie is still listed
C11_Witness ==
    /\ loadPc = "reported"
    /\ loadResp.body = [json |-> TRUE, detail |-> Str("title required")]
    /\ movies # <<>>
    /\ toasts[Len(toasts)] = [type |-> "error", text |-> "Failed to load movies: title required"]

-----------------------------------------------------------------------------
(* Actor picker: failure messages *)

\* C12: the step in which fetchActors reports a failure emits one error
\* notification formatted with the context "Failed to load actors": the
\* context alone for an error body without detail, the context followed by
\* ": <detail>" for one with a detail, and the context followed by
\* ": Could not connect to server" for a network failure.
C12_PickerFailureText ==
    [][\A p \in 1..Len(pickers) :
         (pickers[p].pc \in InFlightPcs /\ pickers'[p].pc = "reported")
         => OneMoreToast("error",
               IF pickers[p].pc = "fetch"
               THEN "Failed to load actors: Could not connect to server"
               ELSE IF pickers'[p].body.detail = Str("title required")
                    THEN "Failed to load actors: title required"
                    ELSE "Failed to load actors")
      ]_vars

-----------------------------------------------------------------------------
(* Failures are surfaced and leave the shell usable *)

\* exactly one notification is emitted in this step, and it is an error
OneErrorToast ==
    /\ Len(toasts') = Len(toasts) + 1
    /\ SubSeq(toasts', 1, Len(toasts)) = toasts
    /\ toasts'[Len(toasts')].type = "error"

\* C13: every step in which the Load, an Add or a Delete gets a non-ok
\* response (also one whose body is not JSON) or a network failure either
\* goes on to read the error body or ends the handler in its failure exit
\* with exactly one error notification; the failing step leaves the list, the
\* view and the mount as they were, so the button, the form and the Delete
\* links are offered as before; a cancelled Load emits no notification.
C13_FailuresSurfaced ==
    [][ /\ \A i \in 1..Len(ops) :
             /\ (ops[i].pc \in InFlightPcs /\ ops'[i].pc # ops[i].pc)
                => ops'[i].pc \in {"json_ok", "json_err", "succeeded", "failed"}
             /\ Fails(i)
                => /\ OneErrorToast
                   /\ UNCHANGED <<movies, addingMovie, mounted>>
        /\ (loadPc \in InFlightPcs /\ loadPc' # loadPc)
           => loadPc' \in {"json_ok", "json_err", "applied", "reported", "cancelled"}
        /\ (loadPc \in InFlightPcs /\ loadPc' = "reported")
           => /\ OneErrorToast
              /\ UNCHANGED <<movies, addingMovie, mounted>>
        /\ (loadPc \in InFlightPcs /\ loadPc' = "cancelled")
           => toasts' = toasts
      ]_vars

\* an Add got no response, or a non-ok response whose body is not JSON: the
\* error was shown and the form can be submitted again
C13_Witness ==
    \E i \in 1..Len(ops) :
        /\ ops[i].kind = "add" /\ ops[i].pc = "failed"
        /\ toasts # <<>>
        /\ toasts[Len(toasts)] =
             [type |-> "error", text |-> "Failed to add movie: Could not connect to server"]
        /\ mounted /\ addingMovie /\ Len(ops) < MaxOps
        /\ ENABLED SubmitMovie

-----------------------------------------------------------------------------
(* The view *)

\* a step that changes nothing but the view
OnlyViewChanges ==
    UNCHANGED <<movies, formId, ops, loadPc, loadResp, mounted, aborted, server,
                nextId, toasts, createdOk, deletedOk, added, loadCancelled, pickers,
                call>>

\* the view is the list at first, goes to the form only by a step that does
\* nothing else (the button press), and goes back to the list only in the
\* step in which an Add succeeds
ViewChangesOnlyByPressAndSuccess ==
    /\ ~addingMovie
    /\ [][ /\ (~addingMovie /\ addingMovie') => OnlyViewChanges
           /\ (addingMovie /\ ~addingMovie')
              => \E i \in 1..Len(ops) : ops[i].kind = "add" /\ Succeeds(i)
         ]_vars

\* a step of the shell that leaves the form without any Add completing
CancelStep == Next /\ addingMovie /\ ~addingMovie' /\ ops' = ops

\* C14 (amended): the view is the list view at first; it becomes the form
\* view only by the "Add a movie" button press and becomes the list view again
\* only by a successful submit; no Load outcome, Delete outcome or failed Add
\* changes it.
C14_ViewMachine == ViewChangesOnlyByPressAndSuccess

\* an Add has succeeded, which closed the form, and the button was pressed again
C14_Witness ==
    /\ addingMovie
    /\ \E i \in 1..Len(ops) : ops[i].kind = "add" /\ Succeeded(i)

\* C14 (as claimed): besides the above, while the form is shown an explicit
\* cancel can return the view to the list view.
C14_ViewMachineWithCancel ==
    /\ ViewChangesOnlyByPressAndSuccess
    /\ []((mounted /\ addingMovie) => ENABLED CancelStep)

-----------------------------------------------------------------------------
(* The error formatter *)

\* C15: getErrorMessage returns the context message followed by ": " and the
\* detail when the detail is a non-empty string, and the context message
\* itself when the detail is undefined or the empty string; for instance
\* "Failed to X" and "bad id" give "Failed to X: bad id".
C15_ErrorFormatter ==
    call.done
    => /\ (call.errorDetail = Undefined \/ call.errorDetail = Str(""))
          => call.result = call.contextMessage
       /\ (call.errorDetail.t = "string" /\ call.errorDetail.v # "")
          => call.result = call.contextMessage \o ": " \o call.errorDetail.v
       /\ (call.contextMessage = "Failed to X" /\ call.errorDetail = Str("bad id"))
          => call.result = "Failed to X: bad id"

\* the formatter was called with a context and the detail "bad id"
C15_Witness ==
    /\ call.done
    /\ call.contextMessage = "Failed to X"
    /\ call.errorDetail = Str("bad id")
    /\ call.result = "Failed to X: bad id"

-----------------------------------------------------------------------------
(* Confirmed changes are kept *)

\* C16: a movie whose Delete returned ok and that is off the list is off the
\* list after every later step.
C16_DeletionPermanent ==
    [][\A j \in 1..Len(ops) :
         (ops[j].kind = "delete" /\ Succeeded(j) /\ ops[j].movie \notin Range(movies))
         => ops[j].movie \notin Range(movies')
      ]_vars

\* C17: a movie whose Add has succeeded is listed for as long as no DELETE of
\* its id has returned ok.
C17_AdditionKept ==
    \A i \in 1..Len(ops) :
        (ops[i].kind = "add" /\ Succeeded(i) /\ MovieId(ops[i].movie) \notin deletedOk)
        => MovieId(ops[i].movie) \in Ids(movies)

====
